---- MODULE Spec2Model ----
(***************************************************************************)
(* pyethnobiology: ethnobotanical indices computed from an Observation     *)
(* Table (a pandas DataFrame of informant / taxon / use rows).             *)
(*                                                                         *)
(* A DataFrame is a sequence of records (one record per row, one field per *)
(* column).  Integer columns hold integers; float columns hold exact       *)
(* fractions [num, den] (den = 0 stands for the inf / NaN a float division *)
(* by zero yields).  Identifiers are positive integers whose numeric order *)
(* is the sort order of the labels; NA is the missing value.               *)
(*                                                                         *)
(* Spec    : the constructor and the calculators FC, NU, UR, UV, CI, RFC,  *)
(*           RI, CV, FL and FIC on tables without empty cells, and the     *)
(*           constructor on tables that lack a required column.            *)
(* SpecNA  : the constructor and FL on tables with empty informant or      *)
(*           taxon cells.                                                  *)
(* SpecAll : the constructor and all_taxon_indices(), on both kinds of     *)
(*           table.                                                        *)
(* SpecJ   : the constructor and jaccard() (the three stages of            *)
(*           Jaccard.run_analysis) on tables with a literature column.     *)
(***************************************************************************)
EXTENDS Integers, Sequences, FiniteSets, TLC

VARIABLES
    data,       \* the DataFrame handed to the constructor, then self.data
    columns,    \* data.columns
    facade,     \* TRUE once pyethnobiology(...) has returned an object
    error,      \* the message of the ValueError the constructor raised
    ties,       \* how this build's argsort orders equal keys
    op,         \* the last call made
    result,     \* what that call returned
    analyzer,   \* the Jaccard object of stats.py: the method it has finished
                \* and its self.data
    given       \* the rows the DataFrame had when the constructor received it

vars == <<data, columns, facade, error, ties, op, result, analyzer, given>>

\* ------------------------------------------------------------------ bounds
MaxRows == 2
NumInformants == 2
NumTaxa == 2
NumUses == 2

NA == 0

Informants == 1..NumInformants
Taxa == 1..NumTaxa
Uses == 1..NumUses

\* ------------------------------------------------------- float arithmetic
Rat(n, d) == [num |-> n, den |-> d]

\* int / int (true division of two integer columns or scalars)
IDiv(a, b) == Rat(a, b)

\* float / float
RDiv(a, b) == Rat(a.num * b.den, a.den * b.num)

\* float / int
RDivInt(a, n) == Rat(a.num, a.den * n)

RAdd(a, b) == Rat(a.num * b.den + b.num * a.den, a.den * b.den)

RMul(a, b) == Rat(a.num * b.num, a.den * b.den)

IsNaN(a) == a.den = 0

REq(a, b) == a.den # 0 /\ b.den # 0 /\ a.num * b.den = b.num * a.den

RLt(a, b) == a.den # 0 /\ b.den # 0 /\ a.num * b.den < b.num * a.den

RLe(a, b) == REq(a, b) \/ RLt(a, b)

\* -------------------------------------------------------- pandas helpers
\* df[col] as a sequence of values
Col(df, c) == [i \in DOMAIN df |-> df[i][c]]

\* df[[cols]]
Project(df, cols) == [i \in DOMAIN df |-> [c \in cols |-> df[i][c]]]

\* the ascending sequence of a finite set of integers
RECURSIVE SortedSeq(_)
SortedSeq(S) ==
    IF S = {} THEN <<>>
    ELSE LET m == CHOOSE x \in S : \A y \in S : x <= y
         IN  <<m>> \o SortedSeq(S \ {m})

\* Series.nunique(): walks the values, counting each non-missing value the
\* first time it is seen
RECURSIVE NuniqueFrom(_, _)
NuniqueFrom(s, seen) ==
    IF s = <<>> THEN 0
    ELSE IF Head(s) = NA \/ Head(s) \in seen THEN NuniqueFrom(Tail(s), seen)
    ELSE 1 + NuniqueFrom(Tail(s), seen \cup {Head(s)})

Nunique(s) == NuniqueFrom(s, {})

\* the group keys of groupby(by): distinct non-missing keys, sorted
GroupKeys(df, by) == SortedSeq({df[i][by] : i \in DOMAIN df} \ {NA})

\* the rows of one group, in table order
GroupRows(df, by, k) == SelectSeq(df, LAMBDA r : r[by] = k)

\* df.groupby(by)[col].nunique().reset_index(name=name)
GroupByNunique(df, by, col, name) ==
    LET keys == GroupKeys(df, by)
    IN  [k \in 1..Len(keys) |->
            (by :> keys[k]) @@ (name :> Nunique(Col(GroupRows(df, by, keys[k]), col)))]

\* df.groupby(by).size().reset_index(name=name)
GroupBySize(df, by, name) ==
    LET keys == GroupKeys(df, by)
    IN  [k \in 1..Len(keys) |->
            (by :> keys[k]) @@ (name :> Len(GroupRows(df, by, keys[k])))]

\* the ascending (lexicographic) sequence of a finite set of pairs
RECURSIVE SortedPairs(_)
SortedPairs(S) ==
    IF S = {} THEN <<>>
    ELSE LET m == CHOOSE x \in S : \A y \in S :
                      x[1] < y[1] \/ (x[1] = y[1] /\ x[2] <= y[2])
         IN  <<m>> \o SortedPairs(S \ {m})

\* df.groupby([by1, by2]).size().to_frame(name=name).reset_index(): one row
\* per distinct (by1, by2) pair with both keys present, sorted by the pair
GroupBySize2(df, by1, by2, name) ==
    LET present == SelectSeq(df, LAMBDA r : r[by1] # NA /\ r[by2] # NA)
        keys == SortedPairs({<<present[i][by1], present[i][by2]>> : i \in DOMAIN present})
    IN  [k \in 1..Len(keys) |->
            (by1 :> keys[k][1]) @@ (by2 :> keys[k][2]) @@
            (name :> Len(SelectSeq(present,
                         LAMBDA r : r[by1] = keys[k][1] /\ r[by2] = keys[k][2])))]

\* df.groupby([by1, by2])[col].nunique().reset_index(name=name): one row per
\* distinct (by1, by2) pair with both keys present, sorted by the pair
GroupByNunique2(df, by1, by2, col, name) ==
    LET present == SelectSeq(df, LAMBDA r : r[by1] # NA /\ r[by2] # NA)
        keys == SortedPairs({<<present[i][by1], present[i][by2]>> : i \in DOMAIN present})
    IN  [k \in 1..Len(keys) |->
            (by1 :> keys[k][1]) @@ (by2 :> keys[k][2]) @@
            (name :> Nunique(Col(SelectSeq(present,
                         LAMBDA r : r[by1] = keys[k][1] /\ r[by2] = keys[k][2]), col)))]

\* Series.unique(): the distinct values in order of first appearance (a
\* missing value is one of them)
RECURSIVE UniqueFrom(_, _)
UniqueFrom(s, seen) ==
    IF s = <<>> THEN <<>>
    ELSE IF Head(s) \in seen THEN UniqueFrom(Tail(s), seen)
    ELSE <<Head(s)>> \o UniqueFrom(Tail(s), seen \cup {Head(s)})

Unique(s) == UniqueFrom(s, {})

\* df[name] = vals, a column computed row by row from df
WithCol(df, name, vals) == [i \in DOMAIN df |-> df[i] @@ (name :> vals[i])]

\* df.drop_duplicates(): keeps the first occurrence of every row
RECURSIVE DropDuplicatesFrom(_, _)
DropDuplicatesFrom(df, seen) ==
    IF df = <<>> THEN <<>>
    ELSE IF Head(df) \in seen THEN DropDuplicatesFrom(Tail(df), seen)
    ELSE <<Head(df)>> \o DropDuplicatesFrom(Tail(df), seen \cup {Head(df)})

DropDuplicates(df) == DropDuplicatesFrom(df, {})

\* pd.merge(left, right, on=on) (inner join): left row order, and for each
\* left row its matching right rows in right order
RECURSIVE Merge(_, _, _)
Merge(left, right, on) ==
    IF left = <<>> THEN <<>>
    ELSE LET l == Head(left)
             hits == SelectSeq(right, LAMBDA r : r[on] = l[on])
         IN  [j \in 1..Len(hits) |-> l @@ hits[j]] \o Merge(Tail(left), right, on)

\* positions of keys in descending order.  sort_values(ascending=False)
\* reverses the column, argsorts it ascending and reverses the outcome.  The
\* calls leave kind at its default "quicksort", which promises no order
\* among equal keys: a build whose argsort is an insertion sort keeps them
\* in their order ("kept"), another one may return them the other way round
\* ("reversed").  Missing keys go last.
RECURSIVE ArgSortDescFrom(_, _, _)
ArgSortDescFrom(keys, i, sorted) ==
    IF i > Len(keys) THEN sorted
    ELSE LET first(j) == IF ties = "kept" THEN ~RLt(keys[j], keys[i])
                         ELSE RLt(keys[i], keys[j])
             before == SelectSeq(sorted, LAMBDA j : first(j))
             after == SelectSeq(sorted, LAMBDA j : ~first(j))
         IN  ArgSortDescFrom(keys, i + 1, before \o <<i>> \o after)

ArgSortDesc(keys) ==
    LET idx == [i \in 1..Len(keys) |-> i]
        present == SelectSeq(idx, LAMBDA i : ~IsNaN(keys[i]))
        missing == SelectSeq(idx, LAMBDA i : IsNaN(keys[i]))
        pk == [i \in 1..Len(present) |-> keys[present[i]]]
        order == ArgSortDescFrom(pk, 1, <<>>)
    IN  [i \in 1..Len(order) |-> present[order[i]]] \o missing

\* df.sort_values(by=col, ascending=False) on an integer column
SortValuesDescInt(df, c) ==
    LET order == ArgSortDesc([i \in DOMAIN df |-> Rat(df[i][c], 1)])
    IN  [i \in 1..Len(order) |-> df[order[i]]]

\* df.sort_values(by=col, ascending=False) on a float column
SortValuesDesc(df, c) ==
    LET order == ArgSortDesc(Col(df, c))
    IN  [i \in 1..Len(order) |-> df[order[i]]]

\* Series.max() of an integer column (NaN on an empty column)
MaxInt(s) ==
    IF s = <<>> THEN Rat(0, 0)
    ELSE Rat(CHOOSE x \in {s[i] : i \in DOMAIN s} :
                 \A y \in {s[i] : i \in DOMAIN s} : y <= x, 1)

\* Series.max() of a float column: missing values are skipped
MaxRat(s) ==
    LET vals == {s[i] : i \in DOMAIN s} \ {v \in {s[i] : i \in DOMAIN s} : IsNaN(v)}
    IN  IF vals = {} THEN Rat(0, 0)
        ELSE CHOOSE x \in vals : \A y \in vals : RLe(y, x)

\* ----------------------------------------------------------- calculators
\* FC that counts the rows of a taxon instead of its distinct informants
FC_calculate_rows(df) ==
    SortValuesDescInt(GroupBySize(df, "taxon", "FC"), "FC")

FC_calculate(df) ==
    SortValuesDescInt(GroupByNunique(df, "taxon", "informant", "FC"), "FC")

\* NU that counts the rows of a taxon instead of its distinct use labels
NU_calculate_rows(df) ==
    SortValuesDescInt(GroupBySize(df, "taxon", "NU"), "NU")

NU_calculate(df) ==
    SortValuesDescInt(GroupByNunique(df, "taxon", "use", "NU"), "NU")

\* UR that counts the distinct use labels of a taxon
UR_calculate_uses(df) ==
    SortValuesDescInt(GroupByNunique(df, "taxon", "use", "UR"), "UR")

\* UR that drops repeated rows before counting
UR_calculate_dedup(df) ==
    SortValuesDescInt(GroupBySize(DropDuplicates(df), "taxon", "UR"), "UR")

UR_calculate(df) ==
    SortValuesDescInt(GroupBySize(df, "taxon", "UR"), "UR")

\* self.data[self.informant_column].nunique()
informants_count(df) == Nunique(Col(df, "informant"))

\* UV that stops after the first grouping stage: one row per (informant,
\* taxon) pair
UV_calculate_pairs(df) ==
    LET ur_by_informant == GroupBySize2(df, "informant", "taxon", "UR")
    IN  SortValuesDescInt(
            [i \in DOMAIN ur_by_informant |->
                ("taxon" :> ur_by_informant[i]["taxon"]) @@
                ("UV" :> ur_by_informant[i]["UR"])], "UV")

\* UV without the first grouping stage: counts rows per taxon
UV_calculate_rows(df) ==
    SortValuesDescInt(GroupBySize(df, "taxon", "UV"), "UV")

UV_calculate(df) ==
    LET ur_by_informant == GroupBySize2(df, "informant", "taxon", "UR")
    IN  SortValuesDescInt(GroupBySize(ur_by_informant, "taxon", "UV"), "UV")

\* CI that divides by the merged per-taxon informant count
CI_calculate_per_taxon(df) ==
    LET ur_df == UR_calculate(df)
        counts == GroupBySize(DropDuplicates(Project(df, {"taxon", "informant"})),
                              "taxon", "informants_count")
        ci_df == Merge(ur_df, counts, "taxon")
        with_ci == WithCol(ci_df, "CI",
            [k \in DOMAIN ci_df |-> IDiv(ci_df[k]["UR"], ci_df[k]["informants_count"])])
    IN  Project(with_ci, {"taxon", "CI"})

CI_calculate(df) ==
    LET ur_df == UR_calculate(df)
        counts == GroupBySize(DropDuplicates(Project(df, {"taxon", "informant"})),
                              "taxon", "informants_count")
        ci_df == Merge(ur_df, counts, "taxon")
        with_ci == WithCol(ci_df, "CI",
            [k \in DOMAIN ci_df |-> IDiv(ci_df[k]["UR"], informants_count(df))])
    IN  Project(with_ci, {"taxon", "CI"})

\* RFC that divides the merged row count UR, not FC
RFC_calculate_ur(df) ==
    LET fc_df == FC_calculate(df)
        total_informants == informants_count(df)
        ur_df == GroupBySize(Project(df, {"taxon", "informant"}), "taxon", "UR")
        rfc_df == Merge(fc_df, ur_df, "taxon")
        with_rfc == WithCol(rfc_df, "RFC",
            [k \in DOMAIN rfc_df |-> IDiv(rfc_df[k]["UR"], total_informants)])
    IN  Project(with_rfc, {"taxon", "RFC"})

RFC_calculate(df) ==
    LET fc_df == FC_calculate(df)
        total_informants == informants_count(df)
        ur_df == GroupBySize(Project(df, {"taxon", "informant"}), "taxon", "UR")
        rfc_df == Merge(fc_df, ur_df, "taxon")
        with_rfc == WithCol(rfc_df, "RFC",
            [k \in DOMAIN rfc_df |-> IDiv(rfc_df[k]["FC"], total_informants)])
    IN  Project(with_rfc, {"taxon", "RFC"})

\* RI that normalises NU by the number of use labels of the table, not by max NU
RI_calculate_uses(df) ==
    LET rfc_df == RFC_calculate(df)
        nu_df == NU_calculate(df)
        max_rfc == MaxRat(Col(rfc_df, "RFC"))
        max_nu == Rat(Nunique(Col(df, "use")), 1)
        rfc_n == WithCol(rfc_df, "RFC(max)",
            [k \in DOMAIN rfc_df |-> RDiv(rfc_df[k]["RFC"], max_rfc)])
        nu_n == WithCol(nu_df, "RNU(max)",
            [k \in DOMAIN nu_df |-> RDiv(Rat(nu_df[k]["NU"], 1), max_nu)])
        ri_df == Merge(Project(rfc_n, {"taxon", "RFC(max)"}),
                       Project(nu_n, {"taxon", "RNU(max)"}), "taxon")
        with_ri == WithCol(ri_df, "RI",
            [k \in DOMAIN ri_df |->
                RDivInt(RAdd(ri_df[k]["RFC(max)"], ri_df[k]["RNU(max)"]), 2)])
    IN  Project(SortValuesDesc(with_ri, "RI"), {"taxon", "RI"})

\* RI that adds the two normalised terms without halving the sum
RI_calculate_sum(df) ==
    LET rfc_df == RFC_calculate(df)
        nu_df == NU_calculate(df)
        max_rfc == MaxRat(Col(rfc_df, "RFC"))
        max_nu == MaxInt(Col(nu_df, "NU"))
        rfc_n == WithCol(rfc_df, "RFC(max)",
            [k \in DOMAIN rfc_df |-> RDiv(rfc_df[k]["RFC"], max_rfc)])
        nu_n == WithCol(nu_df, "RNU(max)",
            [k \in DOMAIN nu_df |-> RDiv(Rat(nu_df[k]["NU"], 1), max_nu)])
        ri_df == Merge(Project(rfc_n, {"taxon", "RFC(max)"}),
                       Project(nu_n, {"taxon", "RNU(max)"}), "taxon")
        with_ri == WithCol(ri_df, "RI",
            [k \in DOMAIN ri_df |-> RAdd(ri_df[k]["RFC(max)"], ri_df[k]["RNU(max)"])])
    IN  Project(SortValuesDesc(with_ri, "RI"), {"taxon", "RI"})

RI_calculate(df) ==
    LET rfc_df == RFC_calculate(df)
        nu_df == NU_calculate(df)
        max_rfc == MaxRat(Col(rfc_df, "RFC"))
        max_nu == MaxInt(Col(nu_df, "NU"))
        rfc_n == WithCol(rfc_df, "RFC(max)",
            [k \in DOMAIN rfc_df |-> RDiv(rfc_df[k]["RFC"], max_rfc)])
        nu_n == WithCol(nu_df, "RNU(max)",
            [k \in DOMAIN nu_df |-> RDiv(Rat(nu_df[k]["NU"], 1), max_nu)])
        ri_df == Merge(Project(rfc_n, {"taxon", "RFC(max)"}),
                       Project(nu_n, {"taxon", "RNU(max)"}), "taxon")
        with_ri == WithCol(ri_df, "RI",
            [k \in DOMAIN ri_df |->
                RDivInt(RAdd(ri_df[k]["RFC(max)"], ri_df[k]["RNU(max)"]), 2)])
    IN  Project(SortValuesDesc(with_ri, "RI"), {"taxon", "RI"})

\* CV that pairs the NU, UR and FC rows by position instead of by taxon
CV_calculate_positional(df) ==
    LET ur_df == UR_calculate(df)
        nu_df == NU_calculate(df)
        fc_df == FC_calculate(df)
        potential_uses == Nunique(Col(df, "use"))
        nu_u == WithCol(nu_df, "Uce",
            [k \in DOMAIN nu_df |-> IDiv(nu_df[k]["NU"], potential_uses)])
        fc_i == WithCol(fc_df, "Ice",
            [k \in DOMAIN fc_df |-> IDiv(fc_df[k]["FC"], informants_count(df))])
        ur_i == WithCol(ur_df, "IUce",
            [k \in DOMAIN ur_df |-> IDiv(ur_df[k]["UR"], informants_count(df))])
        merged_df == [i \in DOMAIN nu_u |-> nu_u[i] @@ ur_i[i] @@ fc_i[i]]
        with_cv == WithCol(merged_df, "CV",
            [k \in DOMAIN merged_df |->
                RMul(RMul(merged_df[k]["Uce"], merged_df[k]["Ice"]), merged_df[k]["IUce"])])
    IN  SortValuesDesc(Project(with_cv, {"taxon", "CV"}), "CV")

CV_calculate(df) ==
    LET ur_df == UR_calculate(df)
        nu_df == NU_calculate(df)
        fc_df == FC_calculate(df)
        potential_uses == Nunique(Col(df, "use"))
        nu_u == WithCol(nu_df, "Uce",
            [k \in DOMAIN nu_df |-> IDiv(nu_df[k]["NU"], potential_uses)])
        fc_i == WithCol(fc_df, "Ice",
            [k \in DOMAIN fc_df |-> IDiv(fc_df[k]["FC"], informants_count(df))])
        ur_i == WithCol(ur_df, "IUce",
            [k \in DOMAIN ur_df |-> IDiv(ur_df[k]["UR"], informants_count(df))])
        merged1 == Merge(Project(nu_u, {"taxon", "Uce"}),
                         Project(ur_i, {"taxon", "IUce"}), "taxon")
        merged_df == Merge(merged1, Project(fc_i, {"taxon", "Ice"}), "taxon")
        with_cv == WithCol(merged_df, "CV",
            [k \in DOMAIN merged_df |->
                RMul(RMul(merged_df[k]["Uce"], merged_df[k]["Ice"]), merged_df[k]["IUce"])])
    IN  SortValuesDesc(Project(with_cv, {"taxon", "CV"}), "CV")

\* FL that divides Ns by the use reports of the taxon instead of its FC
FL_calculate_ur(df) ==
    LET fc_df == UR_calculate(df)
        ns_df == GroupByNunique2(df, "taxon", "use", "informant", "Ns")
        merged_df == Merge(ns_df, fc_df, "taxon")
        with_fl == WithCol(merged_df, "FL",
            [k \in DOMAIN merged_df |->
                IDiv(merged_df[k]["Ns"] * 100, merged_df[k]["UR"])])
        kept == SelectSeq(with_fl, LAMBDA r : ~REq(r["FL"], Rat(0, 1)))
    IN  Project(kept, {"taxon", "use", "FL"})

\* FL without the filter on FL != 0
FL_calculate_unfiltered(df) ==
    LET fc_df == FC_calculate(df)
        ns_df == GroupByNunique2(df, "taxon", "use", "informant", "Ns")
        merged_df == Merge(ns_df, fc_df, "taxon")
        with_fl == WithCol(merged_df, "FL",
            [k \in DOMAIN merged_df |->
                IDiv(merged_df[k]["Ns"] * 100, merged_df[k]["FC"])])
    IN  Project(with_fl, {"taxon", "use", "FL"})

FL_calculate(df) ==
    LET fc_df == FC_calculate(df)
        ns_df == GroupByNunique2(df, "taxon", "use", "informant", "Ns")
        merged_df == Merge(ns_df, fc_df, "taxon")
        with_fl == WithCol(merged_df, "FL",
            [k \in DOMAIN merged_df |->
                IDiv(merged_df[k]["Ns"] * 100, merged_df[k]["FC"])])
        \* merged_df["FL"] != 0 is True for every value but zero (NaN too)
        kept == SelectSeq(with_fl, LAMBDA r : ~REq(r["FL"], Rat(0, 1)))
    IN  Project(kept, {"taxon", "use", "FL"})

\* FIC that always divides, also when Nur <= Nt
FIC_calculate_unguarded(df) ==
    LET cats == Unique(Col(df, "use"))
        fic_df == [k \in 1..Len(cats) |->
            LET specific_data == SelectSeq(df,
                    LAMBDA r : cats[k] # NA /\ r["use"] = cats[k])
                nur == Len(specific_data)
                nt == Nunique(Col(specific_data, "taxon"))
            IN  ("use" :> cats[k]) @@ ("FIC" :> IDiv(nur - nt, nur - 1))]
    IN  SortValuesDesc(fic_df, "FIC")

\* FIC that leaves the rows in the order the categories are met
FIC_calculate_unsorted(df) ==
    LET cats == Unique(Col(df, "use"))
    IN  [k \in 1..Len(cats) |->
            LET specific_data == SelectSeq(df,
                    LAMBDA r : cats[k] # NA /\ r["use"] = cats[k])
                nur == Len(specific_data)
                nt == Nunique(Col(specific_data, "taxon"))
            IN  ("use" :> cats[k]) @@
                ("FIC" :> IF nur > nt THEN IDiv(nur - nt, nur - 1) ELSE Rat(0, 1))]

FIC_calculate(df) ==
    LET cats == Unique(Col(df, "use"))
        fic_df == [k \in 1..Len(cats) |->
            \* a comparison with a missing label selects no row
            LET specific_data == SelectSeq(df,
                    LAMBDA r : cats[k] # NA /\ r["use"] = cats[k])
                nur == Len(specific_data)
                nt == Nunique(Col(specific_data, "taxon"))
            IN  ("use" :> cats[k]) @@
                ("FIC" :> IF nur > nt THEN IDiv(nur - nt, nur - 1) ELSE Rat(0, 1))]
    IN  SortValuesDesc(fic_df, "FIC")

\* ----------------------------------------------------------- composition
\* A calculator's output with its columns and the columns of integer dtype
\* (an empty frame still has both).
Frame(rows, cols, ints) == [rows |-> rows, cols |-> cols, ints |-> ints]

\* the rows of an outer join for the given keys: per key the left rows
\* paired with the right rows; a key one side lacks gets NaN in that side's
\* columns, and an integer column that receives a NaN becomes a float column
RECURSIVE OuterRows(_, _, _, _)
OuterRows(left, right, on, keys) ==
    IF keys = <<>> THEN <<>>
    ELSE LET lkeys == {left.rows[i][on] : i \in DOMAIN left.rows}
             rkeys == {right.rows[i][on] : i \in DOMAIN right.rows}
             lrow(l) == [c \in left.cols |->
                            IF c \in left.ints /\ rkeys \ lkeys # {}
                            THEN Rat(l[c], 1) ELSE l[c]]
             rrow(r) == [c \in right.cols |->
                            IF c \in right.ints /\ lkeys \ rkeys # {}
                            THEN Rat(r[c], 1) ELSE r[c]]
             lnull == [c \in left.cols \ {on} |-> Rat(0, 0)]
             rnull == [c \in right.cols \ {on} |-> Rat(0, 0)]
             L == SelectSeq(left.rows, LAMBDA l : l[on] = Head(keys))
             R == SelectSeq(right.rows, LAMBDA r : r[on] = Head(keys))
             here == IF L = <<>> THEN [j \in 1..Len(R) |-> lnull @@ rrow(R[j])]
                     ELSE IF R = <<>> THEN [j \in 1..Len(L) |-> lrow(L[j]) @@ rnull]
                     ELSE [n \in 1..(Len(L) * Len(R)) |->
                              lrow(L[((n - 1) \div Len(R)) + 1]) @@
                              rrow(R[((n - 1) % Len(R)) + 1])]
         IN  here \o OuterRows(left, right, on, Tail(keys))

\* an inner join in place of the outer one: keys one side lacks are dropped
OuterMerge_inner(left, right, on) ==
    Frame(Merge(left.rows, right.rows, on), left.cols \cup right.cols,
          left.ints \cup right.ints)

\* left.merge(right, on=on, how='outer'): the union of the keys of both
\* frames, sorted
OuterMerge(left, right, on) ==
    LET lkeys == {left.rows[i][on] : i \in DOMAIN left.rows}
        rkeys == {right.rows[i][on] : i \in DOMAIN right.rows}
    IN  Frame(OuterRows(left, right, on, SortedSeq(lkeys \cup rkeys)),
              left.cols \cup right.cols,
              (IF rkeys \ lkeys # {} THEN {} ELSE left.ints) \cup
              (IF lkeys \ rkeys # {} THEN {} ELSE right.ints))

\* for df in dfs_to_merge[1:]: merged_df = merged_df.merge(df, how='outer')
RECURSIVE MergeAll(_, _)
MergeAll(merged_df, dfs) ==
    IF dfs = <<>> THEN merged_df
    ELSE \* m is the joined frame, computed once per turn of the loop
         CHOOSE all \in {MergeAll(m, Tail(dfs)) :
                            m \in {OuterMerge(merged_df, Head(dfs), "taxon")}} : TRUE

\* the eight outputs glued side by side, row k of one next to row k of the
\* others
merged_df_positional(df) ==
    LET ci == CI_calculate(df)
        fc == FC_calculate(df)
        nu == NU_calculate(df)
        ur == UR_calculate(df)
        rfc == RFC_calculate(df)
        ri == RI_calculate(df)
        uv == UV_calculate(df)
        cv == CV_calculate(df)
    IN  [k \in 1..Len(uv) |->
            ci[k] @@ Project(<<fc[k]>>, {"FC"})[1] @@ Project(<<nu[k]>>, {"NU"})[1] @@
            Project(<<ur[k]>>, {"UR"})[1] @@ Project(<<rfc[k]>>, {"RFC"})[1] @@
            Project(<<ri[k]>>, {"RI"})[1] @@ Project(<<uv[k]>>, {"UV"})[1] @@
            Project(<<cv[k]>>, {"CV"})[1]]

\* all_taxon_indices() with its default arguments (no final sort)
merged_df(df) ==
    LET dfs_to_merge ==
            << Frame(CI_calculate(df), {"taxon", "CI"}, {}),
               Frame(FC_calculate(df), {"taxon", "FC"}, {"FC"}),
               Frame(NU_calculate(df), {"taxon", "NU"}, {"NU"}),
               Frame(UR_calculate(df), {"taxon", "UR"}, {"UR"}),
               Frame(RFC_calculate(df), {"taxon", "RFC"}, {}),
               Frame(RI_calculate(df), {"taxon", "RI"}, {}),
               Frame(UV_calculate(df), {"taxon", "UV"}, {"UV"}),
               Frame(CV_calculate(df), {"taxon", "CV"}, {}) >>
    IN  \* dfs is the list of the eight outputs, each computed once
        CHOOSE rows \in {MergeAll(Head(dfs), Tail(dfs)).rows :
                            dfs \in {dfs_to_merge}} : TRUE

\* ------------------------------------------------------------------ state
Row(i, t, u) == [informant |-> i, taxon |-> t, use |-> u]

Rows == {Row(i, t, u) : i \in Informants, t \in Taxa, u \in Uses}

\* Informant identifiers are opaque: the calculators only test them for
\* equality, and every grouping that sorts by informant is regrouped by
\* taxon.  Tables are therefore enumerated up to a renaming of informants:
\* informants are numbered in the order of their first row.
FirstOccurrenceOrder(t) ==
    \A i \in DOMAIN t :
        \/ t[i].informant = 1
        \/ \E j \in 1..(i - 1) : t[j].informant >= t[i].informant - 1

Tables ==
    {t \in UNION {[1..n -> Rows] : n \in 0..MaxRows} : FirstOccurrenceOrder(t)}

\* The sample table of test_RFC, test_RI, test_UV and test_all_taxon_indices
\* (informants A, B, C = 1, 2, 3; Species1..3 = 1..3; Cough, Fever, Headache
\* = 1, 2, 3); its first four rows are the sample table of test_CI, test_FC,
\* test_NU and test_UR.
TestTable6 ==
    << Row(1, 1, 3), Row(2, 2, 2), Row(3, 1, 3),
       Row(1, 3, 1), Row(2, 1, 3), Row(3, 2, 2) >>

\* A table with what the test table lacks: a taxon with two uses, an
\* informant citing one taxon several times, a repeated row, and taxa that
\* the NU, FC and UR results order in three different ways.
SampleTable ==
    << Row(1, 1, 1), Row(2, 1, 2),
       Row(1, 2, 1), Row(1, 2, 1), Row(1, 2, 1),
       Row(1, 3, 1), Row(2, 3, 1) >>

\* every table made of some of the rows of a table, in their order
RECURSIVE SubTables(_)
SubTables(t) ==
    IF t = <<>> THEN {<<>>}
    ELSE LET rest == SubTables(Tail(t))
         IN  rest \cup {<<Head(t)>> \o r : r \in rest}

\* required_columns of load_data with convert_use_data = False
required_columns == <<"informant", "taxon", "use">>

\* ", ".join(names)
RECURSIVE Join(_, _)
Join(names, sep) ==
    IF names = <<>> THEN <<>>
    ELSE IF Len(names) = 1 THEN names
    ELSE <<Head(names), sep>> \o Join(Tail(names), sep)

\* No Jaccard object exists until jaccard() builds one.
NoAnalyzer == [pc |-> "none", data |-> <<>>, shared |-> FALSE]

\* The DataFrame handed to the constructor: any table within the bounds, any
\* table made of rows of the two sample tables, or a table within the bounds
\* that lacks some of the three columns.
Init ==
    /\ columns \in SUBSET {"informant", "taxon", "use"}
    /\ data \in IF columns = {"informant", "taxon", "use"}
                THEN Tables \cup SubTables(TestTable6) \cup SubTables(SampleTable)
                ELSE {Project(t, columns) : t \in Tables}
    /\ ties \in {"kept", "reversed"}
    /\ facade = FALSE
    /\ error = <<>>
    /\ op = "init"
    /\ result = <<>>
    /\ analyzer = NoAnalyzer
    /\ given = data

\* a constructor whose message names only the first missing column
load_data_first_only ==
    /\ ~facade
    /\ error = <<>>
    /\ LET missing_columns == SelectSeq(required_columns, LAMBDA c : c \notin columns)
       IN  IF missing_columns # <<>>
           THEN /\ error' = <<"Missing required columns: ", Head(missing_columns)>>
                /\ facade' = FALSE
           ELSE /\ error' = <<>>
                /\ facade' = TRUE
    /\ op' = "load_data"
    /\ UNCHANGED <<data, columns, ties, result, analyzer, given>>

\* pyethnobiology(data): __init__ calls load_data, which raises when a
\* required column is missing and stores the frame otherwise
load_data ==
    /\ ~facade
    /\ error = <<>>
    /\ LET missing_columns == SelectSeq(required_columns, LAMBDA c : c \notin columns)
       IN  IF missing_columns # <<>>
           THEN /\ error' = <<"Missing required columns: ">> \o Join(missing_columns, ", ")
                /\ facade' = FALSE
           ELSE /\ error' = <<>>
                /\ facade' = TRUE
    /\ op' = "load_data"
    /\ UNCHANGED <<data, columns, ties, result, analyzer, given>>

FC ==
    /\ facade
    /\ op' = "FC"
    /\ result' = FC_calculate(data)
    /\ UNCHANGED <<data, columns, facade, error, ties, analyzer, given>>

\* an NU that drops the repeated rows of self.data in place before counting
NU_in_place ==
    /\ facade
    /\ op' = "NU"
    /\ data' = DropDuplicates(data)
    /\ result' = NU_calculate(data')
    /\ UNCHANGED <<columns, facade, error, ties, analyzer, given>>

NU ==
    /\ facade
    /\ op' = "NU"
    /\ result' = NU_calculate(data)
    /\ UNCHANGED <<data, columns, facade, error, ties, analyzer, given>>

UR ==
    /\ facade
    /\ op' = "UR"
    /\ result' = UR_calculate(data)
    /\ UNCHANGED <<data, columns, facade, error, ties, analyzer, given>>

UV ==
    /\ facade
    /\ op' = "UV"
    /\ result' = UV_calculate(data)
    /\ UNCHANGED <<data, columns, facade, error, ties, analyzer, given>>

CI ==
    /\ facade
    /\ op' = "CI"
    /\ result' = CI_calculate(data)
    /\ UNCHANGED <<data, columns, facade, error, ties, analyzer, given>>

RFC ==
    /\ facade
    /\ op' = "RFC"
    /\ result' = RFC_calculate(data)
    /\ UNCHANGED <<data, columns, facade, error, ties, analyzer, given>>

RI ==
    /\ facade
    /\ op' = "RI"
    /\ result' = RI_calculate(data)
    /\ UNCHANGED <<data, columns, facade, error, ties, analyzer, given>>

CV ==
    /\ facade
    /\ op' = "CV"
    /\ result' = CV_calculate(data)
    /\ UNCHANGED <<data, columns, facade, error, ties, analyzer, given>>

FL ==
    /\ facade
    /\ op' = "FL"
    /\ result' = FL_calculate(data)
    /\ UNCHANGED <<data, columns, facade, error, ties, analyzer, given>>

FIC ==
    /\ facade
    /\ op' = "FIC"
    /\ result' = FIC_calculate(data)
    /\ UNCHANGED <<data, columns, facade, error, ties, analyzer, given>>

all_taxon_indices ==
    /\ facade
    /\ op' = "all_taxon_indices"
    /\ result' = merged_df(data)
    /\ UNCHANGED <<data, columns, facade, error, ties, analyzer, given>>

Next ==
    \/ load_data
    \/ FC
    \/ NU
    \/ UR
    \/ UV
    \/ CI
    \/ RFC
    \/ RI
    \/ CV
    \/ FL
    \/ FIC

Spec == Init /\ [][Next]_vars

\* ----------------------------------------- tables with missing informants
\* Nothing stops a caller from handing over a table with empty informant
\* or taxon cells.  Informants are again numbered in the order of their
\* first row; a missing informant is NA.
FirstOccurrenceOrderNA(t) ==
    \A i \in DOMAIN t :
        \/ t[i].informant \in {NA, 1}
        \/ \E j \in 1..(i - 1) : t[j].informant >= t[i].informant - 1

TablesNA ==
    {t \in UNION {[1..n -> [informant : Informants \cup {NA}, taxon : Taxa, use : Uses]] :
                      n \in 0..MaxRows} : FirstOccurrenceOrderNA(t)}

\* A table with empty informant cells (a taxon nobody is named for, a use of
\* a taxon nobody is named for) and an empty taxon cell.
SampleTableNA ==
    << Row(NA, 1, 1), Row(1, 1, 2), Row(NA, 2, 1),
       Row(1, NA, 1), Row(2, 3, 1), Row(NA, 3, 2) >>

InitNA ==
    /\ columns = {"informant", "taxon", "use"}
    /\ data \in TablesNA \cup SubTables(SampleTableNA) \cup SubTables(SampleTable)
                \cup SubTables(TestTable6)
    /\ ties \in {"kept", "reversed"}
    /\ facade = FALSE
    /\ error = <<>>
    /\ op = "init"
    /\ result = <<>>
    /\ analyzer = NoAnalyzer
    /\ given = data

\* FL on such tables
NextNA ==
    \/ load_data
    \/ FL

SpecNA == InitNA /\ [][NextNA]_vars

\* ------------------------------------------------------------ composition
\* The eight per-taxon calculators read the use labels only through the
\* number of distinct labels, as they read the informants: the tables of
\* all_taxon_indices() are enumerated up to a renaming of the uses too.
UsesFirstOccurrenceOrder(t) ==
    \A i \in DOMAIN t :
        \/ t[i].use = 1
        \/ \E j \in 1..(i - 1) : t[j].use >= t[i].use - 1

InitAll ==
    /\ columns = {"informant", "taxon", "use"}
    /\ data \in {t \in TablesNA : UsesFirstOccurrenceOrder(t)}
                \cup SubTables(SampleTableNA) \cup SubTables(SampleTable)
                \cup SubTables(TestTable6)
    /\ ties \in {"kept", "reversed"}
    /\ facade = FALSE
    /\ error = <<>>
    /\ op = "init"
    /\ result = <<>>
    /\ analyzer = NoAnalyzer
    /\ given = data

NextAll ==
    \/ load_data
    \/ all_taxon_indices

SpecAll == InitAll /\ [][NextAll]_vars

\* ---------------------------------------------------------------- claims
\* What the index definitions say, read off the table directly.
TaxaIn(d) == {d[i].taxon : i \in DOMAIN d}

RowsOf(d, t) == {i \in DOMAIN d : d[i].taxon = t}

InformantsOf(d, t) == {d[i].informant : i \in RowsOf(d, t)}

UsesOf(d, t) == {d[i].use : i \in RowsOf(d, t)}

AllInformants(d) == {d[i].informant : i \in DOMAIN d}

AllUses(d) == {d[i].use : i \in DOMAIN d}

\* the result table res gives taxon t the value v in its integer column c
Assigns(res, t, c, v) ==
    /\ \E i \in DOMAIN res : res[i].taxon = t
    /\ \A i \in DOMAIN res : res[i].taxon = t => res[i][c] = v

\* the result table res gives taxon t the value v in its float column c
AssignsRat(res, t, c, v) ==
    /\ \E i \in DOMAIN res : res[i].taxon = t
    /\ \A i \in DOMAIN res : res[i].taxon = t => REq(res[i][c], v)

\* C1: FC.calculate() gives every taxon of the table the number of distinct
\* informants found in its rows; repeated rows of one informant count once.
C1_FCDistinctInformants ==
    op = "FC" =>
        \A t \in TaxaIn(data) :
            Assigns(result, t, "FC", Cardinality(InformantsOf(data, t)))

\* an FC result for a taxon that one informant cites in several rows
C1_Witness ==
    /\ op = "FC"
    /\ \E i \in DOMAIN result :
          /\ result[i].FC >= 1
          /\ result[i].FC < Cardinality(RowsOf(data, result[i].taxon))

\* C2: UR.calculate() gives every taxon the number of its rows, a repeated
\* (informant, taxon, use) row counting once per occurrence.
C2_URCountsRows ==
    op = "UR" =>
        \A t \in TaxaIn(data) :
            Assigns(result, t, "UR", Cardinality(RowsOf(data, t)))

\* a UR result on a table that holds the same row twice
C2_Witness ==
    /\ op = "UR"
    /\ \E i, j \in DOMAIN data : i < j /\ data[i] = data[j]
    /\ \E k \in DOMAIN result : result[k].UR >= 2

\* C3: NU.calculate() gives every taxon the number of distinct use labels
\* found in its rows.
C3_NUDistinctUses ==
    op = "NU" =>
        \A t \in TaxaIn(data) :
            Assigns(result, t, "NU", Cardinality(UsesOf(data, t)))

\* an NU result for a taxon with more rows than use labels
C3_Witness ==
    /\ op = "NU"
    /\ \E i \in DOMAIN result :
          result[i].NU < Cardinality(RowsOf(data, result[i].taxon))

C5_UVIsRatio ==
    op = "UV" =>
        /\ \A t \in TaxaIn(data) :
              \A i \in DOMAIN result :
                  result[i].taxon = t =>
                      REq(Rat(result[i].UV, 1),
                          Rat(Cardinality(InformantsOf(data, t)),
                              Cardinality(AllInformants(data))))
        /\ data = TestTable6 =>
              /\ Len(result) = 3
              /\ result[1].taxon = 1 /\ REq(Rat(result[1].UV, 1), Rat(1, 1))
              /\ result[2].taxon = 2 /\ REq(Rat(result[2].UV, 1), Rat(2, 3))
              /\ result[3].taxon = 3 /\ REq(Rat(result[3].UV, 1), Rat(1, 3))

\* C6: on a non-empty table CI.calculate() gives every taxon UR(taxon) / N,
\* N the number of distinct informants of the table, the same value as a
\* fresh UR computation divided by N.
C6_CIIsUROverN ==
    (op = "CI" /\ data # <<>>) =>
        \A t \in TaxaIn(data) :
            /\ AssignsRat(result, t, "CI",
                          Rat(Cardinality(RowsOf(data, t)), Cardinality(AllInformants(data))))
            /\ \E j \in DOMAIN UR_calculate(data) :
                  /\ UR_calculate(data)[j].taxon = t
                  /\ AssignsRat(result, t, "CI",
                                Rat(UR_calculate(data)[j].UR, Cardinality(AllInformants(data))))

\* a CI above 1: a taxon with more rows than the table has informants
C6_Witness ==
    /\ op = "CI"
    /\ \E i \in DOMAIN result :
          /\ RLt(Rat(1, 1), result[i].CI)
          /\ Cardinality(RowsOf(data, result[i].taxon)) > Cardinality(AllInformants(data))

\* C7: on a non-empty table RFC.calculate() gives every taxon FC(taxon) / N;
\* the per-taxon row count computed on the way plays no part.
C7_RFCIsFCOverN ==
    (op = "RFC" /\ data # <<>>) =>
        \A t \in TaxaIn(data) :
            AssignsRat(result, t, "RFC",
                       Rat(Cardinality(InformantsOf(data, t)), Cardinality(AllInformants(data))))

\* an RFC result for a taxon whose row count differs from its FC
C7_Witness ==
    /\ op = "RFC"
    /\ \E i \in DOMAIN result :
          /\ Cardinality(InformantsOf(data, result[i].taxon))
                < Cardinality(RowsOf(data, result[i].taxon))
          /\ RLt(result[i].RFC, Rat(1, 1))

\* RFC and RI as the definitions state them
DefRFC(d, t) == Rat(Cardinality(InformantsOf(d, t)), Cardinality(AllInformants(d)))

DefMaxRFC(d) ==
    DefRFC(d, CHOOSE t \in TaxaIn(d) : \A u \in TaxaIn(d) : RLe(DefRFC(d, u), DefRFC(d, t)))

DefNU(d, t) == Cardinality(UsesOf(d, t))

DefMaxNU(d) ==
    DefNU(d, CHOOSE t \in TaxaIn(d) : \A u \in TaxaIn(d) : DefNU(d, u) <= DefNU(d, t))

DefRI(d, t) ==
    RDivInt(RAdd(RDiv(DefRFC(d, t), DefMaxRFC(d)),
                 Rat(DefNU(d, t), DefMaxNU(d))), 2)

\* C8: on a non-empty table RI.calculate() gives every taxon
\* (RFC(taxon) / max RFC + NU(taxon) / max NU) / 2, the maxima over all taxa.
C8_RIFormula ==
    (op = "RI" /\ data # <<>>) =>
        \A t \in TaxaIn(data) : AssignsRat(result, t, "RI", DefRI(data, t))

\* an RI result in which a taxon is below the maximum in both terms
C8_Witness ==
    /\ op = "RI"
    /\ \E i \in DOMAIN result :
          /\ RLt(DefRFC(data, result[i].taxon), DefMaxRFC(data))
          /\ DefNU(data, result[i].taxon) < DefMaxNU(data)
          /\ RLt(result[i].RI, Rat(1, 1))

\* C9: on a non-empty table every RI lies in [0, 1], and a taxon with both
\* the maximum RFC and the maximum NU has RI exactly 1.
C9_RIRange ==
    (op = "RI" /\ data # <<>>) =>
        \A i \in DOMAIN result :
            /\ RLe(Rat(0, 1), result[i].RI)
            /\ RLe(result[i].RI, Rat(1, 1))
            /\ (/\ REq(DefRFC(data, result[i].taxon), DefMaxRFC(data))
                /\ DefNU(data, result[i].taxon) = DefMaxNU(data))
               => REq(result[i].RI, Rat(1, 1))

\* an RI result with a taxon at both maxima beside a taxon at neither
C9_Witness ==
    /\ op = "RI"
    /\ \E i, j \in DOMAIN result :
          /\ REq(DefRFC(data, result[i].taxon), DefMaxRFC(data))
          /\ DefNU(data, result[i].taxon) = DefMaxNU(data)
          /\ REq(result[i].RI, Rat(1, 1))
          /\ RLt(DefRFC(data, result[j].taxon), DefMaxRFC(data))
          /\ DefNU(data, result[j].taxon) < DefMaxNU(data)

PairsIn(d) == {<<d[i].taxon, d[i].use>> : i \in DOMAIN d}

\* the informants citing exactly the pair (t, u)
InformantsOfPair(d, t, u) ==
    {d[i].informant : i \in {j \in DOMAIN d : d[j].taxon = t /\ d[j].use = u}}

\* the rows of category u
RowsOfUse(d, u) == {i \in DOMAIN d : d[i].use = u}

\* C11: FL.calculate() has one row per (taxon, use) pair of the table and no
\* other row; the row of (t, u) holds FL = 100 * Ns / FC(t), Ns the distinct
\* informants citing exactly (t, u) and FC(t) the distinct informants citing
\* t for any use.
C11_FLPerPair ==
    op = "FL" =>
        /\ \A p \in PairsIn(data) :
              \E i \in DOMAIN result :
                  /\ result[i].taxon = p[1] /\ result[i].use = p[2]
                  /\ \A j \in DOMAIN result :
                        (result[j].taxon = p[1] /\ result[j].use = p[2]) => j = i
                  /\ REq(result[i].FL,
                         Rat(100 * Cardinality(InformantsOfPair(data, p[1], p[2])),
                             Cardinality(InformantsOf(data, p[1]))))
        /\ \A i \in DOMAIN result : <<result[i].taxon, result[i].use>> \in PairsIn(data)
        /\ \A i \in DOMAIN result : DOMAIN result[i] = {"taxon", "use", "FL"}

\* an FL result with a pair cited by only some of its taxon's informants
\* (FL < 100) and a pair that has more rows than informants
C11_Witness ==
    /\ op = "FL"
    /\ \E i, j \in DOMAIN result :
          /\ RLt(result[i].FL, Rat(100, 1))
          /\ Cardinality({k \in RowsOf(data, result[j].taxon) : data[k].use = result[j].use})
                > Cardinality(InformantsOfPair(data, result[j].taxon, result[j].use))

C14_NoDivisionByZero ==
    (facade /\ data # <<>>) =>
        /\ op \in {"CI", "RFC", "RI", "CV", "FL", "FIC"} =>
              \A i \in DOMAIN result : ~IsNaN(result[i][op])
        /\ op = "FIC" =>
              \A u \in AllUses(data) :
                  LET specific_data == SelectSeq(data, LAMBDA r : r["use"] = u)
                      nur == Len(specific_data)
                      nt == Nunique(Col(specific_data, "taxon"))
                  IN  nur > nt => nur >= 2
        /\ op = "RI" =>
              /\ RLt(Rat(0, 1), MaxRat(Col(RFC_calculate(data), "RFC")))
              /\ RLe(Rat(1, 1), MaxInt(Col(NU_calculate(data), "NU")))
        /\ op = "FL" =>
              \A i \in DOMAIN FC_calculate(data) : FC_calculate(data)[i]["FC"] >= 1
        /\ op \in {"CI", "RFC", "CV"} => informants_count(data) >= 1
        /\ op = "CV" => Nunique(Col(data, "use")) >= 1

\* an FIC result with a category of a single row, where Nur - 1 is zero, next
\* to a category whose quotient is computed
C14_Witness ==
    /\ op = "FIC"
    /\ \E i, j \in DOMAIN result :
          /\ Cardinality(RowsOfUse(data, result[i].use)) = 1
          /\ REq(result[i].FIC, Rat(0, 1))
          /\ RLt(Rat(0, 1), result[j].FIC)

\* C15: on a non-empty table each of FC, NU, UR and UV returns exactly one
\* row per distinct taxon of the table: none missing, none twice, and no
\* taxon that is not in the table.
C15_OneRowPerTaxon ==
    (facade /\ data # <<>> /\ op \in {"FC", "NU", "UR", "UV"}) =>
        /\ \A t \in TaxaIn(data) :
              Cardinality({i \in DOMAIN result : result[i].taxon = t}) = 1
        /\ \A i \in DOMAIN result : result[i].taxon \in TaxaIn(data)

\* a UV result with several taxa, one of them cited by two informants
C15_Witness ==
    /\ op = "UV"
    /\ Len(result) >= 2
    /\ \E i \in DOMAIN result : result[i].UV >= 2

\* C16: for every table and taxon, FC(taxon) <= UR(taxon): a taxon has at
\* most as many distinct informants as rows.
C16_FCAtMostUR ==
    /\ op = "FC" =>
          \A i \in DOMAIN result :
              \E j \in DOMAIN UR_calculate(data) :
                  /\ UR_calculate(data)[j].taxon = result[i].taxon
                  /\ result[i].FC <= UR_calculate(data)[j].UR
    /\ op = "UR" =>
          \A i \in DOMAIN result :
              \E j \in DOMAIN FC_calculate(data) :
                  /\ FC_calculate(data)[j].taxon = result[i].taxon
                  /\ FC_calculate(data)[j].FC <= result[i].UR

\* a UR result with one taxon whose FC is smaller than its UR and another
\* whose FC equals its UR and is at least 2
C16_Witness ==
    /\ op = "UR"
    /\ \E i, j \in DOMAIN result :
          /\ Cardinality(InformantsOf(data, result[i].taxon)) < result[i].UR
          /\ Cardinality(InformantsOf(data, result[j].taxon)) = result[j].UR
          /\ result[j].UR >= 2

\* C17: the FC result is in non-increasing FC order and taxa with equal FC
\* keep the order in which the grouping produced them (a stable sort); the
\* NU, UR, UV and RI results are in non-increasing order of their metric.
C17_SortedAndStable ==
    /\ op \in {"FC", "NU", "UR", "UV"} =>
          \A i, j \in DOMAIN result : i < j => result[i][op] >= result[j][op]
    /\ op = "RI" =>
          \A i, j \in DOMAIN result : i < j => RLe(result[j].RI, result[i].RI)
    /\ op = "FC" =>
          LET grouped == GroupByNunique(data, "taxon", "informant", "FC")
              pos(t) == CHOOSE k \in DOMAIN grouped : grouped[k].taxon = t
          IN  \A i, j \in DOMAIN result :
                  (i < j /\ result[i].FC = result[j].FC) =>
                      pos(result[i].taxon) < pos(result[j].taxon)

\* no informant or taxon cell of the table is empty
NoMissing(d) == \A i \in DOMAIN d : d[i].informant # NA /\ d[i].taxon # NA

\* C12: no row of the FL result has FL = 0, whatever the table; on a table
\* without empty informant or taxon cells every FL lies in (0, 100] and
\* every (taxon, use) pair of the table has a row (the filter drops none).
C12_FLNeverZero ==
    op = "FL" =>
        /\ \A i \in DOMAIN result : ~REq(result[i].FL, Rat(0, 1))
        /\ NoMissing(data) =>
              /\ \A i \in DOMAIN result :
                    RLt(Rat(0, 1), result[i].FL) /\ RLe(result[i].FL, Rat(100, 1))
              /\ \A p \in PairsIn(data) :
                    \E i \in DOMAIN result :
                        result[i].taxon = p[1] /\ result[i].use = p[2]

\* an FL result from which the filter has removed a pair: the pair's rows
\* name no informant (Ns = 0) while the taxon has one elsewhere (FC >= 1)
C12_Witness ==
    /\ op = "FL"
    /\ result # <<>>
    /\ \E p \in PairsIn(data) :
          /\ p[1] # NA
          /\ InformantsOfPair(data, p[1], p[2]) = {NA}
          /\ InformantsOf(data, p[1]) # {NA}
          /\ \A i \in DOMAIN result : ~(result[i].taxon = p[1] /\ result[i].use = p[2])

\* the taxa of a calculator's output
TaxaOf(res) == {res[i].taxon : i \in DOMAIN res}

\* the standalone output of the calculator of column c
Standalone(c, d) ==
    CASE c = "CI" -> CI_calculate(d)
      [] c = "FC" -> FC_calculate(d)
      [] c = "NU" -> NU_calculate(d)
      [] c = "UR" -> UR_calculate(d)
      [] c = "RFC" -> RFC_calculate(d)
      [] c = "RI" -> RI_calculate(d)
      [] c = "UV" -> UV_calculate(d)
      [] c = "CV" -> CV_calculate(d)

MetricColumns == {"CI", "FC", "NU", "UR", "RFC", "RI", "UV", "CV"}

\* C18: the taxa of the all_taxon_indices() table are the union of the taxa
\* of the eight calculator outputs, each in exactly one row; where a
\* calculator has no row for a taxon the taxon is kept and its cell in that
\* calculator's column is null (NaN), not zero.
C18_OuterJoinKeepsTaxa ==
    op = "all_taxon_indices" =>
        LET taxa == [c \in MetricColumns |-> TaxaOf(Standalone(c, data))]
        IN  /\ TaxaOf(result) = UNION {taxa[c] : c \in MetricColumns}
            /\ \A i, j \in DOMAIN result : result[i].taxon = result[j].taxon => i = j
            /\ \A i \in DOMAIN result : DOMAIN result[i] = MetricColumns \cup {"taxon"}
            /\ \A c \in MetricColumns :
                  \A i \in DOMAIN result :
                      result[i].taxon \notin taxa[c] => result[i][c] = Rat(0, 0)

\* a composed table with a taxon that UV has no row for (nobody is named
\* for it) while FC has one and UV has rows for other taxa: its UV cell is
\* null
C18_Witness ==
    /\ op = "all_taxon_indices"
    /\ \E i \in DOMAIN result :
          /\ result[i].taxon \notin TaxaOf(UV_calculate(data))
          /\ result[i].taxon \in TaxaOf(FC_calculate(data))
          /\ result[i].UV = Rat(0, 0)
    /\ UV_calculate(data) # <<>>

\* the cell of an integer column holds v: as an integer, or as the float of
\* the same value once the join has put a NaN into the column
HoldsInt(cell, v, upcast) == IF upcast THEN cell = Rat(v, 1) ELSE cell = v

\* C19: every cell of the all_taxon_indices() table equals the value the
\* standalone calculator of its column returns for the row's taxon on the
\* same table: the join changes no value and pairs none with another taxon.
C19_CompositionRoundTrip ==
    op = "all_taxon_indices" =>
        \A c \in MetricColumns :
            LET alone == Standalone(c, data)
                upcast == TaxaOf(result) \ TaxaOf(alone) # {}
            IN  \A j \in DOMAIN alone :
                    \E i \in DOMAIN result :
                        /\ result[i].taxon = alone[j].taxon
                        /\ IF c \in {"FC", "NU", "UR", "UV"}
                           THEN HoldsInt(result[i][c], alone[j][c], upcast)
                           ELSE result[i][c] = alone[j][c]

\* a composed table of three taxa that the FC and NU outputs list in
\* different orders
C19_Witness ==
    /\ op = "all_taxon_indices"
    /\ Len(result) >= 3
    /\ Len(FC_calculate(data)) = Len(NU_calculate(data))
    /\ \E k \in DOMAIN FC_calculate(data) :
          FC_calculate(data)[k].taxon # NU_calculate(data)[k].taxon

\* the required columns the table lacks
Lacking == {"informant", "taxon", "use"} \ columns

\* C20: on a table that lacks a required column the constructor fails at
\* once with the message 'Missing required columns: ' followed by every
\* missing column name and nothing else; no facade object exists then or
\* later, so no calculator ever runs on such a table.
C20_MissingColumnsFail ==
    Lacking # {} =>
        /\ ~facade
        /\ op \in {"init", "load_data"}
        /\ result = <<>>
        /\ op = "load_data" =>
              /\ error # <<>>
              /\ Head(error) = "Missing required columns: "
              /\ \A c \in Lacking : \E k \in 2..Len(error) : error[k] = c
              /\ \A k \in 2..Len(error) : error[k] \in Lacking \cup {", "}

\* the constructor has failed on a non-empty table that lacks two columns
C20_Witness ==
    /\ op = "load_data"
    /\ data # <<>>
    /\ Cardinality(Lacking) = 2
    /\ ~facade
    /\ Len(error) = 4

\* ---------------------------------------------------------------- stats.py
\* A str is the sequence of its characters.  A cell of the literature column
\* is a str or is missing (NaN).
Str(s) == [isna |-> FALSE, text |-> s]

NaN == [isna |-> TRUE, text |-> <<>>]

\* ord(c) of the characters that occur in study names
ord(c) ==
    CASE c = " " -> 32 [] c = ";" -> 59 [] c = "A" -> 65 [] c = "M" -> 77
      [] c = "S" -> 83 [] c = "a" -> 97 [] c = "d" -> 100 [] c = "n" -> 110
      [] c = "t" -> 116 [] c = "u" -> 117 [] c = "y" -> 121

\* a < b on str, as groupby's sort of the study names compares them
RECURSIVE StrLt(_, _)
StrLt(a, b) ==
    IF b = <<>> THEN FALSE
    ELSE IF a = <<>> THEN TRUE
    ELSE IF Head(a) = Head(b) THEN StrLt(Tail(a), Tail(b))
    ELSE ord(Head(a)) < ord(Head(b))

\* the ascending sequence of a finite set of str
RECURSIVE SortedStrs(_)
SortedStrs(S) ==
    IF S = {} THEN <<>>
    ELSE LET m == CHOOSE x \in S : \A y \in S : x = y \/ StrLt(x, y)
         IN  <<m>> \o SortedStrs(S \ {m})

\* s.split(sep) read from position i on, cur being the piece under way
RECURSIVE SplitFrom(_, _, _, _)
SplitFrom(s, sep, i, cur) ==
    IF i > Len(s) THEN <<cur>>
    ELSE IF s[i] = sep THEN <<cur>> \o SplitFrom(s, sep, i + 1, <<>>)
    ELSE SplitFrom(s, sep, i + 1, Append(cur, s[i]))

split(s, sep) == SplitFrom(s, sep, 1, <<>>)

\* the default my_study of run_analysis and the name convert_data gives the
\* rows of the table itself
MyStudy == <<"M", "y", " ", "S", "t", "u", "d", "y">>

\* pd.api.types.is_string_dtype of an object column (pandas 2.1.4): every
\* value is a str, a missing value makes it False
is_string_dtype(col) == \A i \in DOMAIN col : ~col[i].isna

\* Series.astype(str): str(value) of every cell, "nan" for a missing one
astype_str(col) ==
    [i \in DOMAIN col |-> IF col[i].isna THEN Str(<<"n", "a", "n">>) ELSE col[i]]

\* The frame after the first statement of convert_data, which assigns the
\* literature column of self.data in place.
literature_as_str(df) ==
    IF ~is_string_dtype(Col(df, "literature"))
    THEN LET strs == astype_str(Col(df, "literature"))
         IN  [i \in DOMAIN df |-> [df[i] EXCEPT !.literature = strs[i]]]
    ELSE df

\* rows_to_add of one row of the table: the row of "My Study" and one row
\* per piece of the literature cell
rows_to_add(row) ==
    LET literature_references ==
            IF row.literature.isna THEN <<>>        \* AttributeError caught
            ELSE split(row.literature.text, ";")
    IN  <<[study |-> MyStudy, taxon |-> row.taxon, use |-> row.use]>> \o
        [k \in DOMAIN literature_references |->
            [study |-> literature_references[k], taxon |-> row.taxon, use |-> row.use]]

\* converted_data after the loop over the rows: the concatenation of the
\* rows_to_add of every row from row i on
RECURSIVE ConcatFrom(_, _)
ConcatFrom(df, i) ==
    IF i > Len(df) THEN <<>>
    ELSE rows_to_add(df[i]) \o ConcatFrom(df, i + 1)

\* Series.clip(upper=1)
clip(x) == IF x > 1 THEN 1 ELSE x

\* the keys of groupby(["study", taxon]) in their sorted order
RECURSIVE StudyTaxonKeysFrom(_, _)
StudyTaxonKeysFrom(long, studies) ==
    IF studies = <<>> THEN <<>>
    ELSE LET s == Head(studies)
             taxa == SortedSeq({long[k].taxon : k \in {j \in DOMAIN long : long[j].study = s}})
         IN  [k \in DOMAIN taxa |-> <<s, taxa[k]>>]
             \o StudyTaxonKeysFrom(long, Tail(studies))

StudyTaxonKeys(long) ==
    StudyTaxonKeysFrom(long, SortedStrs({long[k].study : k \in DOMAIN long}))

\* convert_data on the frame whose literature column holds str: a row per
\* (study, taxon) group, in every ailment column the clipped sum of the 1s of
\* the group (an absent cell is filled with 0)
convert_data(df) ==
    LET unique_ailments == {df[i].use : i \in DOMAIN df}
        converted_data == ConcatFrom(df, 1)
        keys == StudyTaxonKeys(converted_data)
        sum(key, ailment) ==
            Cardinality({k \in DOMAIN converted_data :
                            /\ converted_data[k].study = key[1]
                            /\ converted_data[k].taxon = key[2]
                            /\ converted_data[k].use = ailment})
    IN  [k \in DOMAIN keys |->
            [study |-> keys[k][1], taxon |-> keys[k][2],
             ailments |-> [a \in unique_ailments |-> clip(sum(keys[k], a))]]]
\* A dict is the sequence of its items in insertion order.
DictHas(d, k) == \E i \in DOMAIN d : d[i].key = k

DictGet(d, k) == d[CHOOSE i \in DOMAIN d : d[i].key = k].value

\* d[k] = v: a new key goes to the end, a known key keeps its place
DictSet(d, k, v) ==
    IF DictHas(d, k)
    THEN [i \in DOMAIN d |-> IF d[i].key = k THEN [key |-> k, value |-> v] ELSE d[i]]
    ELSE Append(d, [key |-> k, value |-> v])

\* study_data after the first loop of fill_missing_taxa_dynamic has read the
\* rows from row i on
RECURSIVE StudyDataFrom(_, _, _)
StudyDataFrom(df, i, study_data) ==
    IF i > Len(df) THEN study_data
    ELSE LET study_name == df[i].study
             known == IF DictHas(study_data, study_name)
                      THEN study_data
                      ELSE DictSet(study_data, study_name, <<>>)
         IN  StudyDataFrom(df, i + 1,
                 DictSet(known, study_name,
                         DictSet(DictGet(known, study_name), df[i].taxon, df[i].ailments)))

\* a second loop that adds no row
FillFrom_none(study_values, taxa_in_my_study, j, zeros) == study_values

\* a second loop that marks every ailment in the rows it adds
FillFrom_ones(study_values, taxa_in_my_study, j, zeros) ==
    LET missing == SelectSeq(taxa_in_my_study,
                             LAMBDA item : ~DictHas(study_values, item.key))
    IN  study_values \o
        [k \in DOMAIN missing |->
            [key |-> missing[k].key, value |-> [a \in DOMAIN zeros |-> 1]]]

\* the second loop, for one study: every taxon of "My Study" the study lacks
\* is added with a vector of zeros, the taxa being read from position j on
RECURSIVE FillFrom(_, _, _, _)
FillFrom(study_values, taxa_in_my_study, j, zeros) ==
    IF j > Len(taxa_in_my_study) THEN study_values
    ELSE FillFrom(IF DictHas(study_values, taxa_in_my_study[j].key)
                  THEN study_values
                  ELSE DictSet(study_values, taxa_in_my_study[j].key, zeros),
                  taxa_in_my_study, j + 1, zeros)

\* transformed_data: the rows of every study, then result_df
RECURSIVE TransformedFrom(_, _)
TransformedFrom(study_data, i) ==
    IF i > Len(study_data) THEN <<>>
    ELSE LET study == study_data[i].key
             study_values == study_data[i].value
         IN  [k \in DOMAIN study_values |->
                 [study |-> study, taxon |-> study_values[k].key,
                  ailments |-> study_values[k].value]]
             \o TransformedFrom(study_data, i + 1)

\* fill_missing_taxa_dynamic on the presence matrix df (a frame without rows
\* has no study, and neither loop runs)
fill_missing_taxa_dynamic(df) ==
    LET study_data == StudyDataFrom(df, 1, <<>>)
        ailment_names == UNION {DOMAIN df[i].ailments : i \in DOMAIN df}
        zeros == [a \in ailment_names |-> 0]
        filled == [i \in DOMAIN study_data |->
                      [key |-> study_data[i].key,
                       value |-> FillFrom(study_data[i].value,
                                          DictGet(study_data, MyStudy), 1, zeros)]]
    IN  TransformedFrom(filled, 1)

\* subset.values.flatten(): the cells of the ailment columns row after row,
\* the columns in the one order both subsets share
RECURSIVE Flatten(_, _)
Flatten(subset, ailment_columns) ==
    IF subset = <<>> THEN <<>>
    ELSE [k \in DOMAIN ailment_columns |-> Head(subset).ailments[ailment_columns[k]]]
         \o Flatten(Tail(subset), ailment_columns)

\* sklearn's check of the two arguments of jaccard_score
consistent_length(y_true, y_pred) == Len(y_true) = Len(y_pred)

\* a score over all the positions instead of those where either holds 1
jaccard_score_over_length(y_true, y_pred) ==
    Rat(Cardinality({i \in DOMAIN y_true : y_true[i] = 1 /\ y_pred[i] = 1}), Len(y_true))

\* jaccard_score(y_true, y_pred) of two 0/1 vectors of one length: the
\* positions where both hold 1 over the positions where either does, and 0.0
\* (with a warning) where neither does anywhere
jaccard_score(y_true, y_pred) ==
    LET tp == Cardinality({i \in DOMAIN y_true : y_true[i] = 1 /\ y_pred[i] = 1})
        fp == Cardinality({i \in DOMAIN y_true : y_true[i] # 1 /\ y_pred[i] = 1})
        fn == Cardinality({i \in DOMAIN y_true : y_true[i] = 1 /\ y_pred[i] # 1})
    IN  IF tp + fp + fn = 0 THEN Rat(0, 1) ELSE Rat(tp, tp + fp + fn)

\* df[df[study_column] == study]
StudyRows(df, study) == SelectSeq(df, LAMBDA row : row.study = study)

\* the studies the loop of calculate_jaccard_similarity scores
OtherStudies(df, my_study) ==
    SelectSeq(Unique(Col(df, "study")), LAMBDA s : s # my_study)

\* calculate_jaccard_similarity: a row per study other than my_study, in
\* the order of their first rows
calculate_jaccard_similarity(df, my_study) ==
    LET ailment_columns == SortedSeq(UNION {DOMAIN df[i].ailments : i \in DOMAIN df})
        studies == OtherStudies(df, my_study)
        subset1_flattened == Flatten(StudyRows(df, my_study), ailment_columns)
    IN  [k \in DOMAIN studies |->
            [study |-> studies[k],
             similarity |-> jaccard_score(subset1_flattened,
                                Flatten(StudyRows(df, studies[k]), ailment_columns))]]

\* ------------------------------------------------- the similarity analysis
\* Jaccard reads the taxon, use and literature columns only: the tables of
\* the analysis hold one informant, uses numbered in the order of their
\* first rows (the labels are mere column names of the presence matrix), and
\* literature cells that are missing, empty, one reference sorting before
\* "My Study", one sorting after it, or both references.
LiteratureCells ==
    {NaN, Str(<<>>), Str(<<"A">>), Str(<<"a">>), Str(<<"A", ";", "a">>)}

TablesJ ==
    {t \in UNION {[1..n -> [informant : {1}, taxon : Taxa, use : Uses,
                            literature : LiteratureCells]] : n \in 0..MaxRows} :
        UsesFirstOccurrenceOrder(t)}

InitJ ==
    /\ columns = {"informant", "taxon", "use", "literature"}
    /\ data \in TablesJ
    /\ ties = "kept"
    /\ facade = FALSE
    /\ error = <<>>
    /\ op = "init"
    /\ result = <<>>
    /\ analyzer = NoAnalyzer
    /\ given = data

\* pyethnobiology.jaccard() up to the call of run_analysis: a new Jaccard
\* whose self.data is the DataFrame object of the facade
jaccard ==
    /\ facade
    /\ analyzer.pc \in {"none", "done", "failed"}
    /\ analyzer' = [pc |-> "new", data |-> data, shared |-> TRUE]
    /\ op' = "jaccard"
    /\ error' = <<>>
    /\ UNCHANGED <<data, columns, facade, ties, result, given>>

\* run_analysis() called once more on the Jaccard that has returned: its
\* self.data is the frame the last run left there
run_analysis ==
    /\ facade
    /\ analyzer.pc = "done"
    /\ analyzer' = [analyzer EXCEPT !.pc = "new"]
    /\ op' = "run_analysis"
    /\ error' = <<>>
    /\ UNCHANGED <<data, columns, facade, ties, result, given>>

\* run_analysis, first stage: self.data = self.convert_data(...) and the two
\* index levels copied into columns.  self.data[literature_column] raises
\* KeyError where self.data is no longer the table (its columns are then
\* the ailments, "study" and "taxon"); where it is the facade's DataFrame
\* the assignment of the literature column lands in that object.
Conversion ==
    /\ analyzer.pc = "new"
    /\ IF analyzer.shared
       THEN /\ data' = literature_as_str(analyzer.data)
            /\ analyzer' = [pc |-> "converted", shared |-> FALSE,
                            data |-> convert_data(literature_as_str(analyzer.data))]
            /\ error' = error
       ELSE /\ error' = <<"KeyError">>
            /\ analyzer' = [analyzer EXCEPT !.pc = "failed"]
            /\ data' = data
    /\ UNCHANGED <<columns, facade, ties, op, result, given>>

\* second stage: self.data = self.fill_missing_taxa_dynamic()
GapFilling ==
    /\ analyzer.pc = "converted"
    /\ analyzer' = [analyzer EXCEPT !.pc = "filled",
                                    !.data = fill_missing_taxa_dynamic(analyzer.data)]
    /\ UNCHANGED <<data, columns, facade, error, ties, op, result, given>>

\* third stage: calculate_jaccard_similarity, whose frame run_analysis
\* returns; jaccard_score raises ValueError on vectors of different lengths
PairwiseSimilarity ==
    /\ analyzer.pc = "filled"
    /\ LET df == analyzer.data
           ailment_columns == SortedSeq(UNION {DOMAIN df[i].ailments : i \in DOMAIN df})
           studies == OtherStudies(df, MyStudy)
       IN  IF \A k \in DOMAIN studies :
                  consistent_length(Flatten(StudyRows(df, MyStudy), ailment_columns),
                                    Flatten(StudyRows(df, studies[k]), ailment_columns))
           THEN /\ result' = calculate_jaccard_similarity(df, MyStudy)
                /\ analyzer' = [analyzer EXCEPT !.pc = "done"]
                /\ error' = error
           ELSE /\ error' = <<"ValueError">>
                /\ analyzer' = [analyzer EXCEPT !.pc = "failed"]
                /\ result' = result
    /\ UNCHANGED <<data, columns, facade, ties, op, given>>

NextJ ==
    \/ load_data
    \/ jaccard
    \/ run_analysis
    \/ Conversion
    \/ GapFilling
    \/ PairwiseSimilarity

SpecJ == InitJ /\ [][NextJ]_vars

\* ------------------------------------------------- claims on shared state
\* C21: no call mutates the table shared by the facade and its helpers:
\* after any sequence of calls to the ten calculators, all_taxon_indices and
\* jaccard the table has the rows, columns and cell values it was given, the
\* literature column included.
C21_TableNeverMutated ==
    facade => data = given

\* the result of calculator X called on the table d
Isolated(X, d) ==
    CASE X = "CI" -> CI_calculate(d)
      [] X = "FC" -> FC_calculate(d)
      [] X = "NU" -> NU_calculate(d)
      [] X = "UR" -> UR_calculate(d)
      [] X = "RFC" -> RFC_calculate(d)
      [] X = "RI" -> RI_calculate(d)
      [] X = "UV" -> UV_calculate(d)
      [] X = "CV" -> CV_calculate(d)
      [] X = "FL" -> FL_calculate(d)
      [] X = "FIC" -> FIC_calculate(d)

Calculators == {"CI", "FC", "NU", "UR", "RFC", "RI", "UV", "CV", "FL", "FIC"}

\* C22: the calculators are independent of one another: whatever calls came
\* before it on the same facade, a call of calculator X returns what X
\* returns when called first, on the table as the constructor received it.
C22_CalculatorsIndependent ==
    op \in Calculators => result = Isolated(op, given)

\* a calculator has answered on a table with a repeated row and two taxa
C22_Witness ==
    /\ op \in Calculators
    /\ result = Isolated(op, given)
    /\ Len(result) >= 1
    /\ \E i, j \in DOMAIN given : i < j /\ given[i] = given[j]

\* ------------------------------------------- claims on the similarity table
\* the pieces of a text between its ';' (or its ends)
Pieces(s) ==
    {SubSeq(s, i, j - 1) : <<i, j>> \in
        {p \in (1..(Len(s) + 1)) \X (1..(Len(s) + 1)) :
            /\ p[1] <= p[2]
            /\ p[1] = 1 \/ s[p[1] - 1] = ";"
            /\ p[2] = Len(s) + 1 \/ s[p[2]] = ";"
            /\ \A k \in p[1]..(p[2] - 1) : s[k] # ";"}}

\* the studies a record belongs to: "My Study" and every reference of its
\* literature field
StudiesOfRecord(row) ==
    {MyStudy} \cup (IF row.literature.isna THEN {} ELSE Pieces(row.literature.text))

\* the study s reports taxon t in table d
Reports(d, s, t) ==
    \E i \in DOMAIN d : d[i].taxon = t /\ s \in StudiesOfRecord(d[i])

\* the study s reports taxon t for use a in table d
ReportsUse(d, s, t, a) ==
    \E i \in DOMAIN d : d[i].taxon = t /\ d[i].use = a /\ s \in StudiesOfRecord(d[i])

\* C23: Conversion builds exactly one row per (study, taxon) pair, the
\* studies of a record being "My Study" and every reference obtained by
\* splitting its literature field on ';'; every row is a vector over all the
\* distinct use labels of the whole table whose entry for a use is 1 if some
\* record of that taxon and use belongs to the study and 0 otherwise, never
\* anything else however many records repeat.
C23_ConversionPresence ==
    analyzer.pc = "converted" =>
        LET m == analyzer.data
        IN  /\ {<<m[k].study, m[k].taxon>> : k \in DOMAIN m}
                 = UNION {{<<s, given[i].taxon>> : s \in StudiesOfRecord(given[i])} :
                              i \in DOMAIN given}
            /\ \A k, l \in DOMAIN m :
                  (m[k].study = m[l].study /\ m[k].taxon = m[l].taxon) => k = l
            /\ \A k \in DOMAIN m :
                  /\ DOMAIN m[k].ailments = AllUses(given)
                  /\ \A a \in AllUses(given) :
                        m[k].ailments[a] =
                            IF ReportsUse(given, m[k].study, m[k].taxon, a) THEN 1 ELSE 0

\* a literature cell without text: a missing value or the empty text
Absent(cell) == cell.isna \/ cell.text = <<>>

\* the references named by the records of d whose literature cell has text
NamedReferences(d) ==
    UNION {Pieces(d[i].literature.text) :
               i \in {j \in DOMAIN d : ~Absent(d[j].literature)}}

\* C24: a record whose literature text is absent (a missing value or the
\* empty text) contributes to the "My Study" row of its taxon only: every
\* other study of the presence matrix, and every row of the similarity
\* output, is a reference named by a record that has literature text.
C24_AbsentLiteratureOnlyMyStudy ==
    /\ analyzer.pc \in {"converted", "filled"} =>
          \A k \in DOMAIN analyzer.data :
              analyzer.data[k].study \in {MyStudy} \cup NamedReferences(given)
    /\ analyzer.pc = "done" =>
          \A k \in DOMAIN result : result[k].study \in NamedReferences(given)

\* the rows of the matrix m of study s and taxon t
MatrixRows(m, s, t) == {k \in DOMAIN m : m[k].study = s /\ m[k].taxon = t}

\* the taxa that have a row under study s in the matrix m
TaxaUnder(m, s) == {m[k].taxon : k \in {j \in DOMAIN m : m[j].study = s}}

StudiesIn(m) == {m[k].study : k \in DOMAIN m}

\* C25: after Gap-Filling every study other than "My Study" has exactly one
\* row for every taxon that has a row under "My Study"; a row that Conversion
\* had not built is all zeros over the same use labels; every row Conversion
\* had built is kept with its study, taxon and vector.
C25_GapFilling ==
    analyzer.pc = "filled" =>
        LET before == convert_data(data)
            after == analyzer.data
        IN  /\ \A s \in StudiesIn(after) \ {MyStudy} :
                  \A t \in TaxaUnder(before, MyStudy) :
                      Cardinality(MatrixRows(after, s, t)) = 1
            /\ \A k \in DOMAIN before : \E l \in DOMAIN after : after[l] = before[k]
            /\ \A l \in DOMAIN after :
                  \/ \E k \in DOMAIN before : before[k] = after[l]
                  \/ /\ MatrixRows(before, after[l].study, after[l].taxon) = {}
                     /\ after[l].study \in StudiesIn(before)
                     /\ after[l].ailments = [a \in AllUses(data) |-> 0]

\* Gap-Filling has added a row to a study that had a row of its own
C25_Witness ==
    /\ analyzer.pc = "filled"
    /\ \E l, k \in DOMAIN analyzer.data :
          /\ analyzer.data[l].study = analyzer.data[k].study
          /\ analyzer.data[l].study # MyStudy
          /\ MatrixRows(convert_data(data), analyzer.data[l].study, analyzer.data[l].taxon) = {}
          /\ MatrixRows(convert_data(data), analyzer.data[k].study, analyzer.data[k].taxon) # {}

\* the taxa of the rows of study s in the matrix m, in row order
TaxonOrder(m, s) == Col(StudyRows(m, s), "taxon")

\* C29: in the table handed to Pairwise Similarity the rows of every study
\* come in the taxon order of the rows of "My Study", also where rows were
\* synthesised, so that the two flattened vectors have one length and their
\* position i speaks of one (taxon, ailment) pair.
C29_SameTaxonOrder ==
    analyzer.pc = "filled" =>
        \A s \in StudiesIn(analyzer.data) :
            TaxonOrder(analyzer.data, s) = TaxonOrder(analyzer.data, MyStudy)

\* the (taxon, ailment) pairs the study s reports in the matrix m
PairsReported(m, s) ==
    UNION {{<<m[k].taxon, a>> : a \in {b \in DOMAIN m[k].ailments : m[k].ailments[b] = 1}} :
               k \in {j \in DOMAIN m : m[j].study = s}}

\* C26: the similarity output has exactly one row per study other than
\* "My Study", and the score of study S is the number of (taxon, ailment)
\* pairs both S and "My Study" report over the number either reports, a
\* value in [0, 1].
C26_JaccardOfPairs ==
    analyzer.pc = "done" =>
        LET m == analyzer.data
            mine == PairsReported(m, MyStudy)
        IN  /\ {result[k].study : k \in DOMAIN result} = StudiesIn(m) \ {MyStudy}
            /\ \A k, l \in DOMAIN result : result[k].study = result[l].study => k = l
            /\ \A k \in DOMAIN result :
                  LET theirs == PairsReported(m, result[k].study)
                  IN  /\ REq(result[k].similarity,
                             Rat(Cardinality(mine \cap theirs), Cardinality(mine \cup theirs)))
                      /\ RLe(Rat(0, 1), result[k].similarity)
                      /\ RLe(result[k].similarity, Rat(1, 1))

\* every record of the table d cites the reference s
CitedByAll(d, s) ==
    \A i \in DOMAIN d : ~d[i].literature.isna /\ s \in Pieces(d[i].literature.text)

\* the texts of the literature cells of d
TextsOf(d) ==
    {d[i].literature.text : i \in {j \in DOMAIN d : ~d[j].literature.isna}}

\* C27: a reference study that has exactly the rows of "My Study", every
\* record of a non-empty table citing it, is reported with similarity 1.0.
C27_IdenticalStudyScoresOne ==
    (analyzer.pc = "done" /\ given # <<>>) =>
        \A s \in UNION {Pieces(x) : x \in TextsOf(given)} :
            CitedByAll(given, s) =>
                \E k \in DOMAIN result :
                    result[k].study = s /\ REq(result[k].similarity, Rat(1, 1))

\* two records of different taxa and uses both cite "a" (one of them "A"
\* too), and "a" has been scored 1.0
C27_Witness ==
    /\ analyzer.pc = "done"
    /\ Len(given) = 2
    /\ given[1].taxon # given[2].taxon
    /\ given[1].use # given[2].use
    /\ CitedByAll(given, <<"a">>)
    /\ ~CitedByAll(given, <<"A">>)
    /\ <<"A">> \in UNION {Pieces(x) : x \in TextsOf(given)}
    /\ \E k \in DOMAIN result :
          result[k].study = <<"a">> /\ REq(result[k].similarity, Rat(1, 1))

\* what the three stages make of the table d, one after the other
SimilarityOf(d) ==
    calculate_jaccard_similarity(
        fill_missing_taxa_dynamic(convert_data(literature_as_str(d))), MyStudy)

\* C28: every invocation of run_analysis, a second one on the same analyzer
\* or through jaccard() on the same facade included, runs Conversion on the
\* Observation Table, then Gap-Filling, then Pairwise Similarity, once each,
\* and returns the similarity table the first invocation returned.
C28_StagesInOrderFromTable ==
    [][ /\ analyzer.pc = "new" =>
              /\ analyzer'.pc = "converted"
              /\ analyzer'.data = convert_data(literature_as_str(given))
        /\ analyzer.pc = "converted" =>
              /\ analyzer'.pc = "filled"
              /\ analyzer'.data = fill_missing_taxa_dynamic(analyzer.data)
        /\ analyzer.pc = "filled" =>
              /\ analyzer'.pc = "done"
              /\ result' = calculate_jaccard_similarity(analyzer.data, MyStudy)
              /\ result' = SimilarityOf(given)
      ]_vars

\* C30: on every non-empty table every (taxon, ailment) pair a reference
\* study reports is reported by "My Study" too, and every taxon of a
\* reference is a taxon of "My Study"; so every reference shares a pair with
\* "My Study", and the two vectors Pairwise Similarity compares never hold
\* 0 everywhere: the 0/0 score cannot arise.
C30_ReferencesWithinMyStudy ==
    (analyzer.pc \in {"converted", "filled", "done"} /\ given # <<>>) =>
        LET m == analyzer.data
            mine == PairsReported(m, MyStudy)
            ailment_columns == SortedSeq(AllUses(given))
            y_true == Flatten(StudyRows(m, MyStudy), ailment_columns)
        IN  /\ MyStudy \in StudiesIn(m)
            /\ \A s \in StudiesIn(m) \ {MyStudy} :
                  /\ PairsReported(m, s) \subseteq mine
                  /\ TaxaUnder(m, s) \subseteq TaxaUnder(m, MyStudy)
                  /\ PairsReported(m, s) \cap mine # {}
                  /\ LET y_pred == Flatten(StudyRows(m, s), ailment_columns)
                     IN  \E i \in DOMAIN y_true \cup DOMAIN y_pred :
                             \/ i \in DOMAIN y_true /\ y_true[i] = 1
                             \/ i \in DOMAIN y_pred /\ y_pred[i] = 1

\* the run has scored a reference that reports fewer pairs than "My Study"
\* and lacks one of its taxa
C30_Witness ==
    /\ analyzer.pc = "done"
    /\ \E s \in StudiesIn(analyzer.data) \ {MyStudy} :
          /\ PairsReported(analyzer.data, s) # PairsReported(analyzer.data, MyStudy)
          /\ \E t \in TaxaUnder(analyzer.data, MyStudy) :
                \A p \in PairsReported(analyzer.data, s) : p[1] # t
          /\ \E k \in DOMAIN result :
                result[k].study = s /\ result[k].similarity.den # 0

====
